---- MODULE Spec2Model ----
(***************************************************************************)
(* Model of the provisioning server's configuration store:                 *)
(*   - utils/dict_utils.py        deep_merge                               *)
(*   - utils/ansible/hostvars.py  Hostvars, HostvarsManager                *)
(*   - utils/ansible/inventory.py Inventory, InventoryManager              *)
(*   - utils/repo.py              RepoManager                              *)
(*                                                                         *)
(* YAML/JSON documents are tagged trees: a value is a record               *)
(*   [kind, val, map] with kind "map" (a Python dict, its items in map)    *)
(*   or kind "leaf" (anything that is not a dict: a scalar, a list, None;  *)
(*   its printed form in val).                                             *)
(***************************************************************************)
EXTENDS Naturals, Sequences, FiniteSets, TLC

VARIABLES
    files,      \* hostvar repo working directory: host -> file content
    head,       \* tree of the hostvar repo's HEAD commit: host -> file content
    ahead,      \* commits of the hostvar repo's local branch the remote lacks
    incoming,   \* commits of the remote branch the local branch lacks, if any
    last,       \* the last handler that ran, its arguments and what the caller got
    nops,       \* handlers run so far
    calls,      \* concurrent callers of the hostvar store: where each call is
    invDoc,     \* inventory repo working directory: the parsed inventory.yml
    invHead,    \* inventory.yml as of the inventory repo's HEAD commit
    invCommits, \* commits made in the inventory repo
    invLast,    \* the last inventory handler that ran and what the caller got
    mE, mU, mR, mRR, mpc   \* deep_merge harness: inputs, results, position

vars == <<files, head, ahead, incoming, last, nops, calls,
          invDoc, invHead, invCommits, invLast, mE, mU, mR, mRR, mpc>>
hvVars == <<files, head, ahead, incoming, last, nops, calls>>
invVars == <<invDoc, invHead, invCommits, invLast>>
mVars == <<mE, mU, mR, mRR, mpc>>

----------------------------------------------------------------------------
(* Documents *)

EmptyFn == [k \in {} |-> 0]
Leaf(v) == [kind |-> "leaf", val |-> v, map |-> EmptyFn]
Map(f) == [kind |-> "map", val |-> "", map |-> f]
EmptyMap == Map(EmptyFn)
None == Leaf("null")
IsDict(v) == v.kind = "map"
KeysOf(d) == DOMAIN d.map
\* dict.get(k, default)
DictGet(d, k, default) == IF k \in KeysOf(d) THEN d.map[k] ELSE default
\* d[k] = v on a copy
DictSet(d, k, v) == Map([j \in KeysOf(d) \cup {k} |-> IF j = k THEN v ELSE d.map[j]])

----------------------------------------------------------------------------
(* utils/dict_utils.py *)

IN_PLACE == "in_place"
OVERRIDE == "override"
ReplacementType == {IN_PLACE, OVERRIDE}

\* deep_merge with the recursive call under the wrong branch: a key whose
\* update value is a dict and whose old value is not one is reset to {} and
\* the update's items are never merged into it.
RECURSIVE deep_merge_else(_, _)
deep_merge_else(d1, d2) ==
    IF ~IsDict(d1) THEN d1
    ELSE Map([k \in KeysOf(d1) \cup KeysOf(d2) |->
            IF k \in KeysOf(d2)
            THEN IF IsDict(d2.map[k])
                 THEN IF ~IsDict(DictGet(d1, k, None))
                      THEN EmptyMap
                      ELSE deep_merge_else(d1.map[k], d2.map[k])
                 ELSE d2.map[k]
            ELSE d1.map[k]])

\* deep_merge where a None in the update deletes the key instead of storing None.
RECURSIVE deep_merge_del(_, _)
deep_merge_del(d1, d2) ==
    IF ~IsDict(d1) THEN d1
    ELSE LET keep == {k \in KeysOf(d1) \cup KeysOf(d2) :
                        ~(k \in KeysOf(d2) /\ d2.map[k] = None)}
         IN Map([k \in keep |->
            IF k \in KeysOf(d2)
            THEN IF IsDict(d2.map[k])
                 THEN deep_merge_del(IF IsDict(DictGet(d1, k, None))
                                     THEN d1.map[k] ELSE EmptyMap, d2.map[k])
                 ELSE d2.map[k]
            ELSE d1.map[k]])

\* deep_merge(d1, d2) raises (AttributeError on d1.get / TypeError on d1[k] = v)
\* when d1 is not a dict and d2 has an item; with d2 empty the loop body never
\* runs and d1 is returned as it is.
deep_merge_raises(d1, d2) == ~IsDict(d1) /\ KeysOf(d2) # {}

\* The value deep_merge returns (and leaves in d1) when it does not raise.
RECURSIVE deep_merge(_, _)
deep_merge(d1, d2) ==
    IF ~IsDict(d1) THEN d1
    ELSE Map([k \in KeysOf(d1) \cup KeysOf(d2) |->
            IF k \in KeysOf(d2)
            THEN IF IsDict(d2.map[k])
                 THEN deep_merge(IF IsDict(DictGet(d1, k, None))
                                 THEN d1.map[k] ELSE EmptyMap, d2.map[k])
                 ELSE d2.map[k]
            ELSE d1.map[k]])

----------------------------------------------------------------------------
(* Bounds and input sets *)

MaxOps == 2

Hosts == {"web1", "web2"}

HV_STATE == "state"
HV_STORAGE == "storage"
HV_SYSTEM == "system"
HV_ANY == "any"
HostvarType == {HV_STATE, HV_STORAGE, HV_SYSTEM, HV_ANY}

\* Payloads of a named section.
S_empty == EmptyMap
S_xy == Map("x" :> Map("y" :> Leaf("1")))
S_xz_w == Map("x" :> Map("z" :> Leaf("2")) @@ "w" :> Leaf("1"))
SectionPayloads == {S_empty, S_xy, S_xz_w}

\* Payloads of a whole record (section ANY).
R_empty == EmptyMap
R_full == Map(HV_STATE :> S_xy @@ HV_SYSTEM :> Map("os" :> Leaf("arch")))
R_leaf == Map(HV_STATE :> Leaf("1"))
RecordPayloads == {R_empty, R_full, R_leaf}

\* Sections the update handler is called with: every named section takes the
\* same path through Hostvars.update (var_type.value is only a key)
UpdateTypes == {HV_STATE, HV_STORAGE, HV_ANY}

PayloadsFor(var_type) == IF var_type = HV_ANY THEN RecordPayloads ELSE SectionPayloads

\* model_dump() of the arguments of create and of StateModel()
SystemDumps == {Map("os" :> Leaf("debian"))}
StorageDumps == {Map("disk_name" :> Leaf("sda") @@ "partitions" :> Leaf("[p1]"))}
StateModel_dump == Map("is_provisioned" :> Leaf("false"))

----------------------------------------------------------------------------
(* Files of the hostvar repository *)

Absent == [st |-> "absent", doc |-> EmptyMap]
Corrupt == [st |-> "corrupt", doc |-> EmptyMap]
\* yaml.safe_dump(data, f): the file holds the document
yaml_safe_dump(data) == [st |-> "yaml", doc |-> data]
\* hostvar_file.exists()
exists(fs, host) == fs[host].st # "absent"

----------------------------------------------------------------------------
(* utils/repo.py: a repository is                                           *)
(*   [files, head, ahead, incoming, pullOk, made, log]:                      *)
(* working directory, tree of HEAD, commits the remote lacks, what the      *)
(* remote branch holds that the local branch lacks, whether the remote      *)
(* answers a pull, the trees committed since the running handler started,   *)
(* and the accesses to the working directory and the remote since the       *)
(* running handler started, in the order the code makes them.               *)

\* The remote branch as a pull finds it: nothing new, or commits of another
\* writer, tree being the tree of the last of them
NoNews == [news |-> FALSE, tree |-> [h \in Hosts |-> Absent]]
Incoming(tree) == [news |-> TRUE, tree |-> tree]

Logged(repo, access) == [repo EXCEPT !.log = Append(@, access)]
SetOf(seq) == {seq[i] : i \in 1..Len(seq)}

\* pull(): origin.pull() fast-forwards the branch and the working directory
\* to the remote's commits when the remote answers and has any; an exception
\* of origin.pull() is caught and becomes a Failure, and the repository is
\* as it was. The Result is read by no caller. (No specification pulls into
\* a branch with unpushed commits of its own or into a dirty tree while the
\* remote has news.)
RepoManager_pull(repo) ==
    IF repo.pullOk /\ repo.incoming.news /\ repo.ahead = 0 /\ repo.files = repo.head
    THEN [Logged(repo, "pull") EXCEPT !.files = repo.incoming.tree,
                                      !.head = repo.incoming.tree,
                                      !.incoming = NoNews]
    ELSE Logged(repo, "pull")

\* commit_and_push_all without the is_dirty() test: it commits and pushes
\* whatever git add staged
commit_and_push_all_nogate(repo, commit_msg, pushOk) ==
    LET added == Logged(repo, "add")
        committed == [Logged(Logged(added, "commit"), "push")
                        EXCEPT !.head = added.files,
                               !.ahead = added.ahead + 1,
                               !.made = Append(added.made, added.files)]
    IN  IF pushOk /\ ~added.incoming.news
        THEN [repo |-> [committed EXCEPT !.ahead = 0], result |-> "Success"]
        ELSE [repo |-> committed, result |-> "Failure"]

\* commit_and_push_all that pushes the branch when the tree is clean too
commit_and_push_all_pushclean(repo, commit_msg, pushOk) ==
    LET added == Logged(repo, "add")
    IN  IF added.files # added.head
        THEN LET committed == [Logged(Logged(added, "commit"), "push")
                                 EXCEPT !.head = added.files,
                                        !.ahead = added.ahead + 1,
                                        !.made = Append(added.made, added.files)]
             IN IF pushOk /\ ~added.incoming.news
                THEN [repo |-> [committed EXCEPT !.ahead = 0], result |-> "Success"]
                ELSE [repo |-> committed, result |-> "Failure"]
        ELSE IF pushOk /\ ~added.incoming.news
        THEN [repo |-> [Logged(added, "push") EXCEPT !.ahead = 0], result |-> "Success"]
        ELSE [repo |-> Logged(added, "push"), result |-> "Failure"]

\* commit_and_push_all: git add ., then commit and push when the tree is
\* dirty. A push raises when the remote does not answer (pushOk) or rejects
\* it because its branch holds commits the local branch lacks; it leaves the
\* commit in the local branch, and the exception becomes a Failure value.
commit_and_push_all(repo, commit_msg, pushOk) ==
    LET added == Logged(repo, "add")
    IN  IF added.files # added.head
        THEN LET committed == [Logged(Logged(added, "commit"), "push")
                                 EXCEPT !.head = added.files,
                                        !.ahead = added.ahead + 1,
                                        !.made = Append(added.made, added.files)]
             IN IF pushOk /\ ~added.incoming.news
                THEN [repo |-> [committed EXCEPT !.ahead = 0], result |-> "Success"]
                ELSE [repo |-> committed, result |-> "Failure"]
        ELSE [repo |-> added, result |-> "Success"]

----------------------------------------------------------------------------
(* utils/ansible/hostvars.py: Hostvars, the in-memory data: a function from  *)
(* the hosts it holds to their records                                      *)

\* data.setdefault(host, {})
setdefault(data, host) ==
    IF host \in DOMAIN data THEN data ELSE (host :> EmptyMap) @@ data

\* Hostvars.update with self.data[host] in place of setdefault: a KeyError
\* for a host the data does not hold
Hostvars_update_known(data, host, var_type, replace_type, new_data) ==
    IF host \notin DOMAIN data THEN [raised |-> TRUE, data |-> data]
    ELSE LET host_data == data[host]
             old == DictGet(host_data, var_type, EmptyMap)
         IN  IF replace_type = OVERRIDE
             THEN [raised |-> FALSE,
                   data |-> [data EXCEPT ![host] =
                               IF var_type = HV_ANY THEN new_data
                               ELSE DictSet(host_data, var_type, new_data)]]
             ELSE IF var_type = HV_ANY
             THEN [raised |-> FALSE,
                   data |-> [data EXCEPT ![host] = deep_merge(host_data, new_data)]]
             ELSE IF deep_merge_raises(old, new_data)
             THEN [raised |-> TRUE, data |-> data]
             ELSE [raised |-> FALSE,
                   data |-> [data EXCEPT ![host] =
                               DictSet(host_data, var_type,
                                       deep_merge(old, new_data))]]

\* Hostvars.update where OVERRIDE merges like IN_PLACE
Hostvars_update_merge(data, host, var_type, replace_type, new_data) ==
    LET d0 == setdefault(data, host)
        host_data == d0[host]
        old == DictGet(host_data, var_type, EmptyMap)
    IN  IF var_type = HV_ANY
        THEN [raised |-> FALSE,
              data |-> [d0 EXCEPT ![host] = deep_merge(host_data, new_data)]]
        ELSE IF deep_merge_raises(old, new_data)
        THEN [raised |-> TRUE, data |-> d0]
        ELSE [raised |-> FALSE,
              data |-> [d0 EXCEPT ![host] =
                          DictSet(host_data, var_type, deep_merge(old, new_data))]]

\* Hostvars.update where IN_PLACE does what OVERRIDE does
Hostvars_update_replace(data, host, var_type, replace_type, new_data) ==
    LET d0 == setdefault(data, host)
        host_data == d0[host]
    IN  [raised |-> FALSE,
         data |-> [d0 EXCEPT ![host] =
                     IF var_type = HV_ANY THEN new_data
                     ELSE DictSet(host_data, var_type, new_data)]]

\* Hostvars.update: the data afterwards, or raised when deep_merge raises
Hostvars_update(data, host, var_type, replace_type, new_data) ==
    LET d0 == setdefault(data, host)
        host_data == d0[host]
        old == DictGet(host_data, var_type, EmptyMap)
    IN  IF replace_type = OVERRIDE
        THEN [raised |-> FALSE,
              data |-> [d0 EXCEPT ![host] =
                          IF var_type = HV_ANY THEN new_data
                          ELSE DictSet(host_data, var_type, new_data)]]
        ELSE IF var_type = HV_ANY
        THEN [raised |-> FALSE,
              data |-> [d0 EXCEPT ![host] = deep_merge(host_data, new_data)]]
        ELSE IF deep_merge_raises(old, new_data)
        THEN [raised |-> TRUE, data |-> d0]
        ELSE [raised |-> FALSE,
              data |-> [d0 EXCEPT ![host] =
                          DictSet(host_data, var_type, deep_merge(old, new_data))]]

\* Hostvars.get with a marker in place of {} for a host it does not hold
Hostvars_get_marked(data, host) ==
    IF host \in DOMAIN data THEN data[host] ELSE Leaf("NotFound")

\* Hostvars.get: self.data.get(host, {})
Hostvars_get(data, host) ==
    IF host \in DOMAIN data THEN data[host] ELSE EmptyMap

\* Hostvars.get_all: the dict host -> record
Hostvars_get_all(data) == Map(data)

\* Hostvars.get_section_by_host that looks ANY up as if it named a section
Hostvars_get_section_by_host_noany(data, host, section) ==
    DictGet(Hostvars_get(data, host), section, EmptyMap)

\* Hostvars.get_section_by_host
Hostvars_get_section_by_host(data, host, section) ==
    IF section = HV_ANY THEN Hostvars_get(data, host)
    ELSE DictGet(Hostvars_get(data, host), section, EmptyMap)

\* Hostvars.get_all_by_section
Hostvars_get_all_by_section(data, section) ==
    IF section = HV_ANY THEN Hostvars_get_all(data)
    ELSE Map([h \in DOMAIN data |-> DictGet(data[h], section, EmptyMap)])

----------------------------------------------------------------------------
(* utils/ansible/hostvars.py: HostvarsManager *)

\* yaml.safe_load(f) or {}, and {} when the file does not parse
load_file(f) ==
    IF f.st = "corrupt" THEN EmptyMap
    ELSE IF KeysOf(f.doc) = {} THEN EmptyMap ELSE f.doc

\* load() that gives up at a file that does not parse and holds no host
HostvarsManager_load_stop(repo) ==
    LET r == Logged(RepoManager_pull(repo), "read")
    IN  [repo |-> r,
         data |-> IF \E g \in Hosts : r.files[g] = Corrupt
                  THEN EmptyFn
                  ELSE [h \in {g \in Hosts : exists(r.files, g)} |->
                            load_file(r.files[h])]]

\* load(): pull, then read every *.yml of the working directory
HostvarsManager_load(repo) ==
    LET r == Logged(RepoManager_pull(repo), "read")
    IN  [repo |-> r,
         data |-> [h \in {g \in Hosts : exists(r.files, g)} |-> load_file(r.files[h])]]

\* The disk during one handler: sound (NoFault), or open(hostvar_file, "w")
\* or yaml.safe_dump raising for the file of fault.host. The loop of save()
\* has then written the files of the hosts in fault.before, in the order the
\* snapshot lists them, and the file that failed is as it was (open raised),
\* empty (open truncated it) or cut short.
Empty == [st |-> "empty", doc |-> EmptyMap]
NoFault == [host |-> "none", before |-> {}, torn |-> "kept"]
WriteFaults ==
    UNION {{[host |-> h, before |-> b, torn |-> t] :
                b \in SUBSET (Hosts \ {h}), t \in {"kept", "empty", "corrupt"}} :
           h \in Hosts}
Torn(f, torn) ==
    IF torn = "kept" THEN f ELSE IF torn = "empty" THEN Empty ELSE Corrupt

\* a loop of save() that writes no file
write_all_none(fs, data, fault) == fs

\* a loop of save() that leaves alone the file of a host whose record is empty
write_all_skipempty(fs, data, fault) ==
    [h \in Hosts |->
        IF h \notin DOMAIN data THEN fs[h]
        ELSE IF data[h] = EmptyMap /\ exists(fs, h) THEN fs[h]
        ELSE IF fault.host \notin DOMAIN data THEN yaml_safe_dump(data[h])
        ELSE IF h = fault.host THEN Torn(fs[h], fault.torn)
        ELSE IF h \in fault.before THEN yaml_safe_dump(data[h])
        ELSE fs[h]]

\* for host, data in hostvars.get_all().items(): open and yaml.safe_dump
write_all(fs, data, fault) ==
    [h \in Hosts |->
        IF h \notin DOMAIN data THEN fs[h]
        ELSE IF fault.host \notin DOMAIN data THEN yaml_safe_dump(data[h])
        ELSE IF h = fault.host THEN Torn(fs[h], fault.torn)
        ELSE IF h \in fault.before THEN yaml_safe_dump(data[h])
        ELSE fs[h]]

\* save() that commits whether or not batch_updates is set
HostvarsManager_save_nobatch(repo, data, commit_msg, batch_updates, pushOk, fault) ==
    LET written == Logged([repo EXCEPT !.files = write_all(repo.files, data, fault)],
                          "write")
    IN  IF fault.host \in DOMAIN data
        THEN [repo |-> written, raised |-> TRUE]
        ELSE [repo |-> commit_and_push_all(written, commit_msg, pushOk).repo,
              raised |-> FALSE]

\* save() that logs a failed write and goes on to the commit
HostvarsManager_save_noraise(repo, data, commit_msg, batch_updates, pushOk, fault) ==
    LET written == Logged([repo EXCEPT !.files = write_all(repo.files, data, fault)],
                          "write")
    IN  IF batch_updates
        THEN [repo |-> written, raised |-> FALSE]
        ELSE [repo |-> commit_and_push_all(written, commit_msg, pushOk).repo,
              raised |-> FALSE]

\* save(): write every host of the snapshot, an exception of a write being
\* logged and raised again; then commit and push unless batch_updates
HostvarsManager_save(repo, data, commit_msg, batch_updates, pushOk, fault) ==
    LET written == Logged([repo EXCEPT !.files = write_all(repo.files, data, fault)],
                          "write")
    IN  IF fault.host \in DOMAIN data
        THEN [repo |-> written, raised |-> TRUE]
        ELSE IF batch_updates
        THEN [repo |-> written, raised |-> FALSE]
        ELSE [repo |-> commit_and_push_all(written, commit_msg, pushOk).repo,
              raised |-> FALSE]

\* update() that raises when the pull of load() failed
HostvarsManager_update_abort(repo, host, var_type, replace_type, new_data, commit_msg, batch_updates, pushOk, fault) ==
    LET loaded == HostvarsManager_load(repo)
        upd == Hostvars_update(loaded.data, host, var_type, replace_type, new_data)
    IN  IF upd.raised \/ ~repo.pullOk
        THEN [repo |-> Logged(repo, "pull"), raised |-> TRUE]
        ELSE HostvarsManager_save(loaded.repo, upd.data, commit_msg,
                                  batch_updates, pushOk, fault)

\* update(): load, Hostvars.update, save; an exception of Hostvars.update is
\* logged and raised again, before anything is written
HostvarsManager_update(repo, host, var_type, replace_type, new_data, commit_msg, batch_updates, pushOk, fault) ==
    LET loaded == HostvarsManager_load(repo)
        upd == Hostvars_update(loaded.data, host, var_type, replace_type, new_data)
    IN  IF upd.raised
        THEN [repo |-> loaded.repo, raised |-> TRUE]
        ELSE HostvarsManager_save(loaded.repo, upd.data, commit_msg,
                                  batch_updates, pushOk, fault)

\* The three updates of create(); an exception of one ends the method
create_updates(repo, host, storage, system, pushOk, fault) ==
    LET u1 == HostvarsManager_update(repo, host, HV_SYSTEM, OVERRIDE, system,
                                     "Update hostvars", TRUE, pushOk, fault)
        u2 == IF u1.raised THEN u1
              ELSE HostvarsManager_update(u1.repo, host, HV_STATE, OVERRIDE,
                                          StateModel_dump,
                                          "Update hostvars", TRUE, pushOk, fault)
    IN  IF u2.raised THEN u2
        ELSE HostvarsManager_update(u2.repo, host, HV_STORAGE, OVERRIDE, storage,
                                    "Create data", FALSE, pushOk, fault)

\* create() without the exists() check
HostvarsManager_create_nocheck(repo, host, storage, system, pushOk, fault) ==
    create_updates(Logged(repo, "exists"), host, storage, system, pushOk, fault)

\* create(): hostvar_file.exists() comes first, and the method returns (after
\* a warning) when the file exists; else three updates, the first two with
\* batch_updates
HostvarsManager_create(repo, host, storage, system, pushOk, fault) ==
    LET checked == Logged(repo, "exists")
    IN  IF exists(checked.files, host)
        THEN [repo |-> checked, raised |-> FALSE]
        ELSE create_updates(checked, host, storage, system, pushOk, fault)

\* delete() that unlinks and never commits
HostvarsManager_delete_nocommit(repo, host, pushOk) ==
    LET checked == Logged(repo, "exists")
    IN  IF ~exists(checked.files, host)
        THEN checked
        ELSE Logged([checked EXCEPT !.files = [checked.files EXCEPT ![host] = Absent]],
                    "unlink")

\* delete(): hostvar_file.exists() comes first, and the method returns (after
\* a warning) when the file does not exist; else unlink it, then commit and
\* push
HostvarsManager_delete(repo, host, pushOk) ==
    LET checked == Logged(repo, "exists")
    IN  IF ~exists(checked.files, host)
        THEN checked
        ELSE commit_and_push_all(
                Logged([checked EXCEPT !.files = [checked.files EXCEPT ![host] = Absent]],
                       "unlink"),
                "Delete hostvars", pushOk).repo

\* get(), get_all(), get_section_by_host(), get_all_by_section(): load, then
\* the projection of Hostvars
HostvarsManager_get(repo, host) ==
    Hostvars_get(HostvarsManager_load(repo).data, host)
HostvarsManager_get_all(repo) ==
    Hostvars_get_all(HostvarsManager_load(repo).data)
HostvarsManager_get_section_by_host(repo, host, section) ==
    Hostvars_get_section_by_host(HostvarsManager_load(repo).data, host, section)
HostvarsManager_get_all_by_section(repo, section) ==
    Hostvars_get_all_by_section(HostvarsManager_load(repo).data, section)

----------------------------------------------------------------------------
(* The handlers of the Host Record Store, each run to completion *)

\* Working directories a cloned hostvar repository starts with: each host
\* without a file or with a record, and one of them possibly with a file that
\* does not parse
InitFiles ==
    {f \in [Hosts -> {Absent, Corrupt, yaml_safe_dump(R_full)}] :
        f["web2"] # Corrupt}

\* The repository as a handler finds it, the remote answering its pulls or not
RepoAt(pullOk) ==
    [files |-> files, head |-> head, ahead |-> ahead, incoming |-> incoming,
     pullOk |-> pullOk, made |-> <<>>, log |-> <<>>]
Repo0 == RepoAt(TRUE)

SetRepo(r) ==
    /\ files' = r.files
    /\ head' = r.head
    /\ ahead' = r.ahead
    /\ incoming' = r.incoming

\* What the handler was, what it got and gave, and the working directory it
\* started from; made are the trees it committed
LastOf(op, host, section, rtype, arg, ret, raised, repo, fault) ==
    [op |-> op, host |-> host, section |-> section, rtype |-> rtype,
     arg |-> arg, ret |-> ret, raised |-> raised,
     pre |-> files, made |-> repo.made, log |-> repo.log, fault |-> fault,
     news |-> incoming, pullOk |-> repo.pullOk]
Ran(op, host, section, rtype, arg, ret, raised, repo) ==
    /\ last' = LastOf(op, host, section, rtype, arg, ret, raised, repo, NoFault)
    /\ nops' = nops + 1
    /\ calls' = calls

\* The callers of the specification SpecRace: no call under way
Callers == {1, 2}
IdleCall == [pc |-> "idle", op |-> "none", host |-> "", section |-> "", rtype |-> "", arg |-> EmptyMap, data |-> EmptyFn, raised |-> FALSE]
NoCalls == calls = [p \in Callers |-> IdleCall]

\* The inventory store and the deep_merge harness at rest
InvIdle ==
    /\ invDoc = [hosts |-> EmptyFn, groups |-> EmptyFn]
    /\ invHead = invDoc
    /\ invCommits = 0
    /\ invLast = [op |-> "none"]
MergeIdle ==
    /\ mE = EmptyMap /\ mU = EmptyMap /\ mR = EmptyMap
    /\ mRR = EmptyMap /\ mpc = "idle"
\* The host record store at rest
HvIdle ==
    /\ files = [h \in Hosts |-> Absent]
    /\ head = files
    /\ ahead = 0
    /\ incoming = NoNews
    /\ last = [op |-> "none"]
    /\ nops = 0
    /\ NoCalls

Init ==
    /\ files \in InitFiles
    /\ head = files
    /\ ahead = 0
    /\ incoming = NoNews
    /\ last = [op |-> "none", host |-> "", section |-> "", rtype |-> "",
               arg |-> EmptyMap, ret |-> EmptyMap, raised |-> FALSE,
               pre |-> files, made |-> <<>>, log |-> <<>>, fault |-> NoFault,
               news |-> NoNews, pullOk |-> TRUE]
    /\ nops = 0
    /\ NoCalls
    /\ InvIdle
    /\ MergeIdle

\* hostvars_manager.update(host, var_type, replace_type, new_data)
Update ==
    /\ nops < MaxOps
    /\ \E host \in Hosts, var_type \in UpdateTypes, replace_type \in ReplacementType,
          pushOk \in BOOLEAN :
         \E new_data \in PayloadsFor(var_type) :
            LET r == HostvarsManager_update(Repo0, host, var_type, replace_type, new_data,
                                            "Update hostvars", FALSE, pushOk, NoFault)
            IN  /\ SetRepo(r.repo)
                /\ Ran("update", host, var_type, replace_type, new_data, EmptyMap,
                       r.raised, r.repo)
    /\ UNCHANGED <<invVars, mVars>>

\* hostvars_manager.create(host, storage, system)
Create ==
    /\ nops < MaxOps
    /\ \E host \in Hosts, storage \in StorageDumps, system \in SystemDumps,
          pushOk \in BOOLEAN :
            LET r == HostvarsManager_create(Repo0, host, storage, system, pushOk, NoFault)
            IN  /\ SetRepo(r.repo)
                /\ Ran("create", host, "", "",
                       Map(HV_SYSTEM :> system @@ HV_STATE :> StateModel_dump
                           @@ HV_STORAGE :> storage),
                       EmptyMap, r.raised, r.repo)
    /\ UNCHANGED <<invVars, mVars>>

\* hostvars_manager.delete(host)
Delete ==
    /\ nops < MaxOps
    /\ \E host \in Hosts, pushOk \in BOOLEAN :
            LET r == HostvarsManager_delete(Repo0, host, pushOk)
            IN  /\ SetRepo(r)
                /\ Ran("delete", host, "", "", EmptyMap, EmptyMap, FALSE, r)
    /\ UNCHANGED <<invVars, mVars>>

\* hostvars_manager.get(host)
Get ==
    /\ nops < MaxOps
    /\ \E host \in Hosts :
            /\ SetRepo(HostvarsManager_load(Repo0).repo)
            /\ Ran("get", host, "", "", EmptyMap,
                   HostvarsManager_get(Repo0, host), FALSE,
                   HostvarsManager_load(Repo0).repo)
    /\ UNCHANGED <<invVars, mVars>>

\* hostvars_manager.get_all()
GetAll ==
    /\ nops < MaxOps
    /\ SetRepo(HostvarsManager_load(Repo0).repo)
    /\ Ran("get_all", "", "", "", EmptyMap,
           HostvarsManager_get_all(Repo0), FALSE, HostvarsManager_load(Repo0).repo)
    /\ UNCHANGED <<invVars, mVars>>

\* hostvars_manager.get_section_by_host(host, section)
GetSectionByHost ==
    /\ nops < MaxOps
    /\ \E host \in Hosts, section \in HostvarType :
            /\ SetRepo(HostvarsManager_load(Repo0).repo)
            /\ Ran("get_section_by_host", host, section, "", EmptyMap,
                   HostvarsManager_get_section_by_host(Repo0, host, section),
                   FALSE, HostvarsManager_load(Repo0).repo)
    /\ UNCHANGED <<invVars, mVars>>

\* hostvars_manager.get_all_by_section(section)
GetAllBySection ==
    /\ nops < MaxOps
    /\ \E section \in HostvarType :
            /\ SetRepo(HostvarsManager_load(Repo0).repo)
            /\ Ran("get_all_by_section", "", section, "", EmptyMap,
                   HostvarsManager_get_all_by_section(Repo0, section),
                   FALSE, HostvarsManager_load(Repo0).repo)
    /\ UNCHANGED <<invVars, mVars>>

Next ==
    \/ Update
    \/ Create
    \/ Delete
    \/ Get
    \/ GetAll
    \/ GetSectionByHost
    \/ GetAllBySection

Spec == Init /\ [][Next]_vars

----------------------------------------------------------------------------
(* The Host Record Store on a disk whose writes can fail (specification     *)
(* SpecIO): hostvars_manager.update of the state section with open() or     *)
(* yaml.safe_dump raising for one host's file, the remote taking every push *)

\* Working directories with a record for web2 and a record, a file that does
\* not parse or no file for web1
InitIO ==
    /\ Init
    /\ files["web2"] = yaml_safe_dump(R_full)

UpdateIO ==
    /\ nops < MaxOps
    /\ \E host \in Hosts, var_type \in {HV_STATE}, replace_type \in ReplacementType,
          fault \in WriteFaults \cup {NoFault} :
         \E new_data \in {S_xy, S_xz_w} :
            LET r == HostvarsManager_update(Repo0, host, var_type, replace_type, new_data,
                                            "Update hostvars", FALSE, TRUE, fault)
                snapshot == {h \in Hosts : exists(files, h)} \cup {host}
                \* the fault as it showed: none when save() was not reached or
                \* the snapshot does not hold the host whose file cannot be written
                shown == IF "write" \in SetOf(r.repo.log) /\ fault.host \in snapshot
                         THEN [fault EXCEPT !.before = @ \cap snapshot]
                         ELSE NoFault
            IN  /\ SetRepo(r.repo)
                /\ last' = LastOf("update", host, var_type, replace_type, new_data,
                                  EmptyMap, r.raised, r.repo, shown)
                /\ nops' = nops + 1
                /\ calls' = calls
    /\ UNCHANGED <<invVars, mVars>>

NextIO ==
    \/ UpdateIO

SpecIO == InitIO /\ [][NextIO]_vars

----------------------------------------------------------------------------
(* The Host Record Store beside another writer of the remote (specification *)
(* SpecSync): between handlers the other writer pushes a commit that gives  *)
(* a host a record or removes its file, and the remote answers a handler's  *)
(* pulls or fails them all. A handler starts only while the local branch    *)
(* and the remote have not diverged.                                        *)

\* The record the other writer gives a host
R_provisioned == Map(HV_STATE :> Map("is_provisioned" :> Leaf("true")) @@ HV_SYSTEM :> Map("os" :> Leaf("arch")))
RemoteFiles == {yaml_safe_dump(R_provisioned), Absent}

\* The local branch holds commits the remote lacks and the remote commits
\* the local branch lacks
Diverged == ahead > 0 /\ incoming.news

InitSync == Init

\* The other writer commits on top of the remote branch and pushes
RemotePush ==
    /\ nops < MaxOps
    /\ ahead = 0
    /\ ~incoming.news
    /\ \E host \in Hosts, f \in RemoteFiles :
            /\ f # head[host]
            /\ incoming' = Incoming([head EXCEPT ![host] = f])
    /\ UNCHANGED <<files, head, ahead, last, nops, calls, invVars, mVars>>

UpdateSync ==
    /\ nops < MaxOps
    /\ ~Diverged
    /\ \E host \in Hosts, var_type \in {HV_STATE}, replace_type \in ReplacementType,
          pullOk \in BOOLEAN, pushOk \in BOOLEAN :
         \E new_data \in {S_xz_w} :
            LET r == HostvarsManager_update(RepoAt(pullOk), host, var_type, replace_type,
                                            new_data, "Update hostvars", FALSE, pushOk,
                                            NoFault)
            IN  /\ SetRepo(r.repo)
                /\ Ran("update", host, var_type, replace_type, new_data, EmptyMap,
                       r.raised, r.repo)
    /\ UNCHANGED <<invVars, mVars>>

CreateSync ==
    /\ nops < MaxOps
    /\ ~Diverged
    /\ \E host \in Hosts, storage \in StorageDumps, system \in SystemDumps,
          pullOk \in BOOLEAN, pushOk \in BOOLEAN :
            LET r == HostvarsManager_create(RepoAt(pullOk), host, storage, system,
                                            pushOk, NoFault)
            IN  /\ SetRepo(r.repo)
                /\ Ran("create", host, "", "",
                       Map(HV_SYSTEM :> system @@ HV_STATE :> StateModel_dump
                           @@ HV_STORAGE :> storage),
                       EmptyMap, r.raised, r.repo)
    /\ UNCHANGED <<invVars, mVars>>

GetSync ==
    /\ nops < MaxOps
    /\ ~Diverged
    /\ \E host \in Hosts, pullOk \in BOOLEAN :
            /\ SetRepo(HostvarsManager_load(RepoAt(pullOk)).repo)
            /\ Ran("get", host, "", "", EmptyMap,
                   HostvarsManager_get(RepoAt(pullOk), host), FALSE,
                   HostvarsManager_load(RepoAt(pullOk)).repo)
    /\ UNCHANGED <<invVars, mVars>>

NextSync ==
    \/ RemotePush
    \/ UpdateSync
    \/ CreateSync
    \/ GetSync

SpecSync == InitSync /\ [][NextSync]_vars

----------------------------------------------------------------------------
(* The Host Record Store under concurrent callers (specification SpecRace): *)
(* two callers share the working directory, as two requests served at once  *)
(* do, and nothing locks it. A call of update goes through the phases of    *)
(* HostvarsManager.update one at a time: load() and Hostvars.update on the  *)
(* snapshot, the writes of save(), commit_and_push_all; a call of delete    *)
(* through the exists() test with the unlink, then commit_and_push_all.     *)
(* Phases of different calls interleave in any order; the remote takes      *)
(* every push.                                                              *)

InitRace ==
    /\ Init
    /\ \A h \in Hosts : files[h] = yaml_safe_dump(R_full)

\* update(): self.load() and self.hostvars.update(...) on what it read
BeginUpdate(p) ==
    /\ nops < MaxOps
    /\ calls[p].pc \in {"idle", "done"}
    /\ \E host \in Hosts, var_type \in {HV_STATE}, replace_type \in ReplacementType :
         \E new_data \in {S_xy, S_xz_w} :
            LET loaded == HostvarsManager_load(Repo0)
                upd == Hostvars_update(loaded.data, host, var_type, replace_type,
                                       new_data)
            IN  /\ SetRepo(loaded.repo)
                /\ calls' = [calls EXCEPT ![p] =
                        [pc |-> IF upd.raised THEN "done" ELSE "loaded",
                         op |-> "update", host |-> host, section |-> var_type,
                         rtype |-> replace_type, arg |-> new_data,
                         data |-> upd.data, raised |-> upd.raised]]
    /\ nops' = nops + 1
    /\ UNCHANGED <<last, invVars, mVars>>

\* save(): the loop that writes every host of the snapshot
Write(p) ==
    /\ calls[p].pc = "loaded"
    /\ files' = write_all(files, calls[p].data, NoFault)
    /\ calls' = [calls EXCEPT ![p].pc = "written"]
    /\ UNCHANGED <<head, ahead, incoming, last, nops, invVars, mVars>>

\* delete(): the exists() test, and the unlink when the file is there
BeginDelete(p) ==
    /\ nops < MaxOps
    /\ calls[p].pc \in {"idle", "done"}
    /\ \E host \in Hosts :
            /\ files' = [files EXCEPT ![host] = Absent]
            /\ calls' = [calls EXCEPT ![p] =
                    [pc |-> IF exists(files, host) THEN "written" ELSE "done",
                     op |-> "delete", host |-> host, section |-> "", rtype |-> "",
                     arg |-> EmptyMap, data |-> EmptyFn, raised |-> FALSE]]
    /\ nops' = nops + 1
    /\ UNCHANGED <<head, ahead, incoming, last, invVars, mVars>>

\* save() and delete(): commit_and_push_all on the working directory as it
\* is by now
Commit(p) ==
    /\ calls[p].pc = "written"
    /\ SetRepo(commit_and_push_all(
                    Repo0,
                    IF calls[p].op = "delete" THEN "Delete hostvars" ELSE "Update hostvars",
                    TRUE).repo)
    /\ calls' = [calls EXCEPT ![p].pc = "done"]
    /\ UNCHANGED <<last, nops, invVars, mVars>>

NextRace ==
    \/ \E p \in Callers : BeginUpdate(p)
    \/ \E p \in Callers : Write(p)
    \/ \E p \in Callers : BeginDelete(p)
    \/ \E p \in Callers : Commit(p)

SpecRace == InitRace /\ [][NextRace]_vars

----------------------------------------------------------------------------
(* Claims about the Host Record Store (specification Spec) *)

\* What get_section_by_host(host, section) returns when called on a working
\* directory fs
SectionOf(fs, host, section) ==
    HostvarsManager_get_section_by_host(
        [files |-> fs, head |-> fs, ahead |-> 0, incoming |-> NoNews,
         pullOk |-> TRUE, made |-> <<>>, log |-> <<>>],
        host, section)

\* g holds u: u itself where u is no mapping, and where u is a mapping a
\* mapping with every key of u, each holding u's value in the same way
RECURSIVE Holds(_, _)
Holds(g, u) ==
    IF ~IsDict(u) THEN g = u
    ELSE /\ IsDict(g)
         /\ \A k \in KeysOf(u) : k \in KeysOf(g) /\ Holds(g.map[k], u.map[k])

\* g keeps what e had and u does not mention, at every level: a key of e
\* that u lacks has e's value; a key where e and u both hold mappings keeps,
\* inside, what e's mapping had and u's does not mention
RECURSIVE Keeps(_, _, _)
Keeps(g, e, u) ==
    \A k \in KeysOf(e) :
        IF k \notin KeysOf(u) THEN k \in KeysOf(g) /\ g.map[k] = e.map[k]
        ELSE (IsDict(e.map[k]) /\ IsDict(u.map[k])) =>
                (k \in KeysOf(g) /\ IsDict(g.map[k])
                 /\ Keeps(g.map[k], e.map[k], u.map[k]))

UpdateDone(rtype) ==
    /\ last.op = "update"
    /\ last.rtype = rtype
    /\ ~last.raised

\* C1 as stated: after an in-place update of section s of h with U has
\* completed, get_section_by_host(h, s) returns a value in which every key of
\* U has U's value and every key the section had and U lacks has its old value
C1_Original ==
    UpdateDone(IN_PLACE) =>
        LET E == SectionOf(last.pre, last.host, last.section)
            G == SectionOf(files, last.host, last.section)
            U == last.arg
        IN  /\ \A k \in KeysOf(U) : k \in KeysOf(G) /\ G.map[k] = U.map[k]
            /\ \A k \in KeysOf(E) \ KeysOf(U) : k \in KeysOf(G) /\ G.map[k] = E.map[k]

\* C1 amended: after an in-place update of section s of h with U has
\* completed, get_section_by_host(h, s) returns a value in which every key of
\* U is present, with U's value where that is no mapping and, where it is a
\* mapping, with a mapping that holds U's items merged into what the key had;
\* and every key the section had and U does not mention keeps its old value,
\* at every level of nesting
C1_ReadYourWrite ==
    UpdateDone(IN_PLACE) =>
        LET E == SectionOf(last.pre, last.host, last.section)
            G == SectionOf(files, last.host, last.section)
            U == last.arg
        IN  /\ KeysOf(U) # {} => Holds(G, U)
            /\ Keeps(G, E, U)

\* C1's case: an in-place update has run on a section that had a key the
\* update lacks and a nested mapping the update also names, with other items
C1_Witness ==
    /\ UpdateDone(IN_PLACE)
    /\ LET E == SectionOf(last.pre, last.host, last.section)
           U == last.arg
       IN  /\ KeysOf(E) \ KeysOf(U) # {}
           /\ \E k \in KeysOf(E) \cap KeysOf(U) :
                /\ IsDict(E.map[k]) /\ IsDict(U.map[k])
                /\ KeysOf(E.map[k]) \ KeysOf(U.map[k]) # {}

\* C2: an override update does not raise and leaves section s of h equal to
\* U; with section ANY the whole record of h equals U
C2_OverrideDiscards ==
    (last.op = "update" /\ last.rtype = OVERRIDE) =>
        /\ ~last.raised
        /\ SectionOf(files, last.host, last.section) = last.arg
        /\ last.section = HV_ANY => files[last.host] = yaml_safe_dump(last.arg)
        /\ last.section # HV_ANY =>
              /\ files[last.host].st = "yaml"
              /\ last.section \in KeysOf(files[last.host].doc)
              /\ files[last.host].doc.map[last.section] = last.arg

\* C2's case: an override of the whole record has run on a record that had a
\* section the update does not name
C2_Witness ==
    /\ UpdateDone(OVERRIDE)
    /\ last.section = HV_ANY
    /\ KeysOf(SectionOf(last.pre, last.host, HV_ANY)) \ KeysOf(last.arg) # {}

\* C5 as stated: an update with {} under either discipline leaves the value of
\* the section (the whole record for ANY) as it was
C5_Original ==
    (last.op = "update" /\ last.arg = EmptyMap) =>
        /\ ~last.raised
        /\ SectionOf(files, last.host, last.section)
             = SectionOf(last.pre, last.host, last.section)

\* C5 amended: an update with {} under the in-place discipline leaves the
\* value of the section (the whole record for ANY) as it was; under override
\* it leaves the empty mapping there
C5_EmptyUpdate ==
    (last.op = "update" /\ last.arg = EmptyMap) =>
        /\ ~last.raised
        /\ last.rtype = IN_PLACE =>
              SectionOf(files, last.host, last.section)
                = SectionOf(last.pre, last.host, last.section)
        /\ last.rtype = OVERRIDE =>
              SectionOf(files, last.host, last.section) = EmptyMap

\* C5's case: an in-place update with {} has run on a section that held
\* something
C5_Witness ==
    /\ UpdateDone(IN_PLACE)
    /\ last.arg = EmptyMap
    /\ SectionOf(last.pre, last.host, last.section) # EmptyMap

\* C6: create for a host without a file makes exactly one commit, and that
\* commit holds the host's record with system, state and storage together
C6_CreateOneCommit ==
    (last.op = "create" /\ ~exists(last.pre, last.host)) =>
        /\ Len(last.made) = 1
        /\ \A i \in 1..Len(last.made) :
              /\ last.made[i][last.host] = yaml_safe_dump(last.arg)
              /\ {HV_SYSTEM, HV_STATE, HV_STORAGE} \subseteq KeysOf(last.made[i][last.host].doc)
        /\ head = last.made[Len(last.made)]

\* C6's case: create has run for a host that had no file
C6_Witness ==
    /\ last.op = "create"
    /\ ~exists(last.pre, last.host)
    /\ exists(files, last.host)

C8_Delete ==
    last.op = "delete" =>
        /\ ~last.raised
        /\ ~exists(last.pre, last.host) =>
              /\ files = last.pre
              /\ last.made = <<>>
        /\ exists(last.pre, last.host) =>
              /\ ~exists(files, last.host)
              /\ \A g \in Hosts \ {last.host} : files[g] = last.pre[g]
              /\ Len(last.made) = 1
              /\ last.made[1] = files
              /\ head = files

\* C8's case: delete has run for a host whose file existed while another
\* host had a file too
C8_Witness ==
    /\ last.op = "delete"
    /\ exists(last.pre, last.host)
    /\ \E g \in Hosts \ {last.host} : exists(last.pre, g)

Touches == {"exists", "read", "unlink", "write"}

\* In log a pull comes before the first access to the working directory
PullsFirst(log) ==
    \A i \in 1..Len(log) :
        log[i] \in Touches => \E j \in 1..(i - 1) : log[j] = "pull"

\* C18: every operation of the Host Record Store and of the Inventory Store
\* pulls from the remote before it reads, tests or changes anything in the
\* working directory, create and delete with their exists() checks included
C18_PullFirst ==
    /\ last.op # "none" => (last.log # <<>> /\ PullsFirst(last.log))
    /\ invLast.op # "none" => (invLast.log # <<>> /\ PullsFirst(invLast.log))

\* C20: an update, create or delete whose commit was made and whose push
\* failed does not return normally, and neither does a method of the
\* Inventory Store whose save() left its commit unpushed
C20_FailureSurfaced ==
    /\ (last.op \in {"update", "create", "delete"} /\ last.made # <<>> /\ ahead > 0)
          => last.raised
    /\ (invLast.op # "none" /\ invLast.unpushed > 0) => invLast.raised

\* C22: a commit is made, and a push attempted, only when the working tree
\* differs from the last commit: every commit of a handler holds a tree that
\* differs from the tree of the commit before it, a handler that leaves
\* every file as the last commit has it (an update that repeats the stored
\* value) makes no commit, and between handlers nothing is left uncommitted
C22_DirtyGate ==
    /\ files = head
    /\ last.op # "none" =>
          /\ \A i \in 1..Len(last.made) :
                last.made[i] # (IF i = 1 THEN last.pre ELSE last.made[i - 1])
          /\ ({"commit", "push"} \cap SetOf(last.log) # {}) => last.made # <<>>
          /\ files = last.pre =>
                (last.made = <<>> /\ {"commit", "push"} \cap SetOf(last.log) = {})

\* C22's case: an update of a stored record with a value the section already
\* holds has written the files and reached git add, and has made no commit
C22_Witness ==
    /\ last.op = "update"
    /\ ~last.raised
    /\ exists(last.pre, last.host)
    /\ KeysOf(last.arg) # {}
    /\ {"write", "add"} \subseteq SetOf(last.log)
    /\ files = last.pre
    /\ last.made = <<>>

\* The read operations of the Host Record Store
Reads == {"get", "get_all", "get_section_by_host", "get_all_by_section"}

\* C23: get, get_all, get_section_by_host and get_all_by_section pull and
\* read and do nothing else: no file is written or deleted and no commit is
\* made; get_section_by_host(h, ANY) returns the whole record of h, and
\* get_section_by_host(h, s) for a section s the record of h does not hold
\* returns the empty mapping
C23_ReadOnly ==
    last.op \in Reads =>
        /\ files = last.pre
        /\ head = files
        /\ last.made = <<>>
        /\ last.log = <<"pull", "read">>
        /\ ~last.raised
        /\ last.op = "get_section_by_host" =>
              LET record == IF exists(last.pre, last.host)
                            THEN load_file(last.pre[last.host]) ELSE EmptyMap
              IN  /\ last.section = HV_ANY => last.ret = record
                  /\ (last.section # HV_ANY /\ last.section \notin KeysOf(record))
                        => last.ret = EmptyMap

\* C23's case: get_section_by_host(h, ANY) has returned the stored record of
\* h, which holds sections
C23_Witness ==
    /\ last.op = "get_section_by_host"
    /\ last.section = HV_ANY
    /\ exists(last.pre, last.host)
    /\ KeysOf(last.ret) # {}

\* C23's other case: get_section_by_host(h, s) has been asked for a section
\* the stored record of h does not hold
C23_WitnessUnset ==
    /\ last.op = "get_section_by_host"
    /\ last.section # HV_ANY
    /\ exists(last.pre, last.host)
    /\ KeysOf(load_file(last.pre[last.host])) # {}
    /\ last.section \notin KeysOf(load_file(last.pre[last.host]))
    /\ last.ret = EmptyMap

\* C24: a host file that does not parse is loaded as the empty record and
\* blocks no operation on another host: with the file of B corrupt and A # B,
\* the getters return normally, get(B) returns the empty mapping and get(A)
\* the record of A, and an update of A fails only when Hostvars.update
\* rejects A's own section, and otherwise its value is in A's file and
\* committed
C24_CorruptIsolated ==
    \A B \in Hosts :
        (last.op # "none" /\ last.pre[B] = Corrupt) =>
            /\ last.op \in Reads => ~last.raised
            /\ (last.op = "get" /\ last.host = B) => last.ret = EmptyMap
            /\ (last.op = "get" /\ last.host # B /\ exists(last.pre, last.host))
                  => last.ret = load_file(last.pre[last.host])
            /\ (last.op = "update" /\ last.host # B) =>
                  /\ last.raised =>
                        /\ last.rtype = IN_PLACE
                        /\ last.section # HV_ANY
                        /\ ~IsDict(SectionOf(last.pre, last.host, last.section))
                  /\ ~last.raised =>
                        /\ files[last.host].st = "yaml"
                        /\ head = files
                        /\ files # last.pre => last.made = <<files>>
                        /\ IF last.rtype = OVERRIDE
                           THEN SectionOf(files, last.host, last.section) = last.arg
                           ELSE Holds(SectionOf(files, last.host, last.section),
                                      last.arg)

\* C24's case: with the file of web1 corrupt, an update of web2 has changed
\* the record of web2 and committed it
C24_Witness ==
    /\ last.op = "update"
    /\ last.host = "web2"
    /\ last.pre["web1"] = Corrupt
    /\ exists(last.pre, "web2")
    /\ ~last.raised
    /\ files["web2"] # last.pre["web2"]
    /\ last.made = <<files>>

\* C30: an update of section s (a named one) of a host that has no record
\* file does not fail and goes through no create: it writes a record file
\* for the host that holds the one section s with the value U given, in
\* place or override alike, and commits it
C30_UpdateCreates ==
    (last.op = "update" /\ ~exists(last.pre, last.host) /\ last.section # HV_ANY) =>
        /\ ~last.raised
        /\ files[last.host] = yaml_safe_dump(Map(last.section :> last.arg))
        /\ "exists" \notin SetOf(last.log)
        /\ head = files
        /\ last.made = <<files>>

\* C30's case: an in-place update with a nested mapping has made the record
\* file of a host that had none
C30_Witness ==
    /\ last.op = "update"
    /\ ~exists(last.pre, last.host)
    /\ last.section # HV_ANY
    /\ last.rtype = IN_PLACE
    /\ last.arg = S_xz_w
    /\ exists(files, last.host)

\* C31 as stated: an update of host A leaves a corrupt file of another host B
\* as it is: the content of B's file is unchanged and no commit of the
\* update changes B's file
C31_Original ==
    \A B \in Hosts :
        (last.op = "update" /\ last.host # B /\ last.pre[B] = Corrupt) =>
            /\ files[B] = last.pre[B]
            /\ \A i \in 1..Len(last.made) : last.made[i][B] = last.pre[B]

\* C31, amended: an update of host A that returns normally rewrites a
\* corrupt file of another host B: load() holds the empty record for B, the
\* write loop dumps it into B's file, and the commit of the update has B's
\* file as the dump of the empty mapping
C31_CorruptRewritten ==
    \A B \in Hosts :
        (/\ last.op = "update" /\ ~last.raised
         /\ last.host # B /\ last.pre[B] = Corrupt) =>
            /\ files[B] = yaml_safe_dump(EmptyMap)
            /\ last.made = <<files>>
            /\ head = files

\* C31's case: with the file of web1 corrupt, an update of web2 has returned
\* and the file of web1 holds the dump of the empty mapping, committed
C31_Witness ==
    /\ last.op = "update"
    /\ last.host = "web2"
    /\ last.pre["web1"] = Corrupt
    /\ ~last.raised
    /\ files["web1"] = yaml_safe_dump(EmptyMap)
    /\ head["web1"] = files["web1"]

\* C29 as stated: a call of commit_and_push_all that returns Success leaves
\* no local commit unpushed, a call that finds the tree clean included (it
\* attempts no push and returns Success)
C29_Original ==
    (last.op # "none" /\ "add" \in SetOf(last.log) /\ "push" \notin SetOf(last.log))
        => ahead = 0

\* C29, amended: commit_and_push_all pushes only when it commits. A call
\* that finds the tree clean attempts no push and leaves the unpushed commits
\* unpushed; a call that commits pushes the branch, which leaves nothing
\* unpushed when the push succeeds (a commit whose push had failed goes with
\* it) and one commit more when it fails
C29_PushWhenDirty ==
    [][(last'.op # "none" /\ "add" \in SetOf(last'.log)) =>
            IF last'.made = <<>>
            THEN ahead' = ahead /\ "push" \notin SetOf(last'.log)
            ELSE "push" \in SetOf(last'.log) /\ ahead' \in {0, ahead + 1}]_vars

\* C29's case: a handler has called commit_and_push_all on a clean tree
\* while a commit whose push failed is unpushed, and the commit is still
\* unpushed
C29_Witness ==
    /\ last.op \in {"update", "create", "delete"}
    /\ "add" \in SetOf(last.log)
    /\ last.made = <<>>
    /\ ahead > 0

----------------------------------------------------------------------------
(* Claims about the Host Record Store on a failing disk (specification SpecIO) *)

\* C19: in update a commit is attempted only after every host file of the
\* snapshot has been written: when the write of a host file fails the
\* exception reaches the caller and nothing is added, committed or pushed,
\* and when git add is reached every file of the snapshot holds the full
\* dump of its record
C19_CommitAfterWrites ==
    last.op = "update" =>
        /\ last.fault # NoFault =>
              /\ last.raised
              /\ last.made = <<>>
              /\ {"add", "commit", "push"} \cap SetOf(last.log) = {}
        /\ "add" \in SetOf(last.log) =>
              /\ ~last.raised
              /\ \A h \in Hosts :
                    /\ (exists(last.pre, h) /\ h # last.host) =>
                          files[h] = yaml_safe_dump(load_file(last.pre[h]))
                    /\ h = last.host => files[h].st = "yaml"

\* C19's case: update has written the file of its host, the write of the
\* other host's file has then failed, and the change is in the working
\* directory without a commit
C19_Witness ==
    /\ last.op = "update"
    /\ last.fault # NoFault
    /\ last.fault.host # last.host
    /\ last.host \in last.fault.before
    /\ files[last.host] # last.pre[last.host]
    /\ files # head

----------------------------------------------------------------------------
(* Claims about the Host Record Store beside another writer (SpecSync) *)

\* What load() makes of the working directory fs for host
LocalRecord(fs, host) ==
    IF exists(fs, host) THEN load_file(fs[host]) ELSE EmptyMap

\* C21: an operation whose pull fails does not abort. It loads the working
\* directory as it is, without the commits the remote holds: a get returns
\* the local record; an update merges into the local record, writes every
\* file of the local snapshot, reaches git add and commits when the tree is
\* dirty; a create of a host without a local file writes and commits its
\* record
C21_PullFailureProceeds ==
    (last.op # "none" /\ ~last.pullOk) =>
        /\ ~last.raised
        /\ last.news.news => incoming = last.news
        /\ last.op = "get" =>
              /\ last.ret = LocalRecord(last.pre, last.host)
              /\ files = last.pre
        /\ last.op = "update" =>
              /\ Len(last.log) >= 4
              /\ SubSeq(last.log, 1, 4) = <<"pull", "read", "write", "add">>
              /\ Holds(SectionOf(files, last.host, last.section), last.arg)
              /\ last.rtype = IN_PLACE =>
                    Keeps(SectionOf(files, last.host, last.section),
                          SectionOf(last.pre, last.host, last.section), last.arg)
              /\ \A h \in Hosts \ {last.host} :
                    files[h] = IF exists(last.pre, h)
                               THEN yaml_safe_dump(load_file(last.pre[h])) ELSE Absent
              /\ head = files
              /\ files # last.pre => last.made = <<files>>
        /\ (last.op = "create" /\ ~exists(last.pre, last.host)) =>
              /\ files[last.host] = yaml_safe_dump(last.arg)
              /\ last.made = <<files>>

\* C21's case: the remote holds a commit of the other writer, the pull of an
\* update has failed, and the update has committed its change on top of the
\* local branch
C21_Witness ==
    /\ last.op = "update"
    /\ ~last.pullOk
    /\ last.news.news
    /\ ~last.raised
    /\ files[last.host] # last.pre[last.host]
    /\ last.made = <<files>>

\* C28: create never overwrites a record that the remote holds and the
\* working directory does not hold yet: when the remote's commits gave the
\* host a record before create started, and create has fetched them and
\* left nothing unpushed, the remote's record of the host is as the other
\* writer committed it
C28_RemoteRecordKept ==
    (/\ last.op = "create"
     /\ last.news.news
     /\ exists(last.news.tree, last.host)
     /\ ~incoming.news
     /\ ahead = 0)
        => head[last.host] = last.news.tree[last.host]

----------------------------------------------------------------------------
(* Claims about the Host Record Store under concurrent callers (SpecRace) *)

\* The call of caller p is an update that has returned without an exception
UpdateReturned(p) ==
    /\ calls[p].op = "update"
    /\ calls[p].pc = "done"
    /\ ~calls[p].raised

\* The stored section of the host of p's update holds what p's update gave
Stored(p) ==
    Holds(SectionOf(files, calls[p].host, calls[p].section), calls[p].arg)

\* C25: two concurrent updates of the same section of the same host can
\* lose one of the two updates, and never both: when both calls have
\* returned without an exception everything is committed and the stored
\* section holds the keys of at least one of them (the reachable state
\* C25_Witness is the lost update itself)
C25_LostUpdate ==
    (/\ UpdateReturned(1) /\ UpdateReturned(2)
     /\ calls[1].host = calls[2].host
     /\ calls[1].section = calls[2].section)
        => /\ head = files
           /\ Stored(1) \/ Stored(2)

\* C25's case: two in-place updates of the same section of the same host
\* have both returned without an exception, everything is committed, and the
\* stored section lacks the keys one of them wrote
C25_Witness ==
    /\ UpdateReturned(1) /\ UpdateReturned(2)
    /\ calls[1].host = calls[2].host
    /\ calls[1].section = calls[2].section
    /\ calls[1].rtype = IN_PLACE /\ calls[2].rtype = IN_PLACE
    /\ head = files
    /\ \E p \in Callers : ~Stored(p)

\* The file of host h is the copy that the call of caller q holds in its
\* snapshot
StaleCopy(q, h) ==
    IF h \in DOMAIN calls[q].data
    THEN files[h] = yaml_safe_dump(calls[q].data[h])
    ELSE ~exists(files, h)

C27_NoResurrection ==
    \A p \in Callers : \A q \in Callers \ {p} :
        (/\ calls[p].op = "delete" /\ calls[p].pc = "done"
         /\ UpdateReturned(q)
         /\ calls[q].host # calls[p].host)
            => ~exists(files, calls[p].host)

----------------------------------------------------------------------------
(* deep_merge on its own (specification SpecMerge): every pair of mappings  *)
(* of the universe below is merged once, and the update merged in again     *)

MKeys == {"a", "b"}
MLeaves == {None, Leaf("1"), Leaf("[2]")}
MapsOver(vals) == UNION {{Map(f) : f \in [S -> vals]} : S \in SUBSET MKeys}
FlatDocs == MapsOver(MLeaves)
Docs == MapsOver(MLeaves \cup FlatDocs)

InitMerge ==
    /\ mE \in Docs
    /\ mU \in Docs
    /\ mR = EmptyMap
    /\ mRR = EmptyMap
    /\ mpc = "start"
    /\ HvIdle
    /\ InvIdle

\* result = deep_merge(E, U)
MergeOnce ==
    /\ mpc = "start"
    /\ mR' = deep_merge(mE, mU)
    /\ mpc' = "once"
    /\ UNCHANGED <<mE, mU, mRR, hvVars, invVars>>

\* deep_merge(result, U)
MergeAgain ==
    /\ mpc = "once"
    /\ mRR' = deep_merge(mR, mU)
    /\ mpc' = "twice"
    /\ UNCHANGED <<mE, mU, mR, hvVars, invVars>>

NextMerge ==
    \/ MergeOnce
    \/ MergeAgain

SpecMerge == InitMerge /\ [][NextMerge]_vars

\* C3: merging the same update into the result of an in-place merge gives
\* that result again
C3_MergeIdempotent ==
    mpc = "twice" => mRR = mR

\* C3's case: an update that changed the mapping and is not the whole result
\* has been merged in twice
C3_Witness ==
    /\ mpc = "twice"
    /\ mR # mE
    /\ mR # mU
    /\ \E k \in KeysOf(mU) : IsDict(mU.map[k]) /\ ~IsDict(DictGet(mE, k, EmptyMap))

\* r has the shape the merge of u into e must have, key by key: a key of e
\* alone has e's value; a key whose u value is no mapping has u's value; a
\* key whose u value is a mapping holds a mapping of that shape again, over
\* e's value when that is a mapping and over {} when it is not or is missing
RECURSIVE MergeShape(_, _, _)
MergeShape(r, e, u) ==
    /\ IsDict(r)
    /\ KeysOf(r) = KeysOf(e) \cup KeysOf(u)
    /\ \A k \in KeysOf(e) \ KeysOf(u) : r.map[k] = e.map[k]
    /\ \A k \in KeysOf(u) :
          IF IsDict(u.map[k])
          THEN MergeShape(r.map[k],
                          IF k \in KeysOf(e) /\ IsDict(e.map[k]) THEN e.map[k] ELSE EmptyMap,
                          u.map[k])
          ELSE r.map[k] = u.map[k]

\* C4: deep_merge(E, U) keeps E's value at a key only E has, takes U's value
\* at a key whose U value is no mapping (so None over a mapping leaves the key
\* there with None), and merges again, from {} when E's value is no mapping,
\* at a key whose U value is a mapping
C4_MergeShape ==
    mpc \in {"once", "twice"} =>
        /\ MergeShape(mR, mE, mU)
        /\ \A k \in KeysOf(mU) \cap KeysOf(mE) :
              (mU.map[k] = None /\ IsDict(mE.map[k])) =>
                  (k \in KeysOf(mR) /\ mR.map[k] = None)

\* C4's case: one merge where a None meets a mapping and a mapping meets a
\* value that is no mapping
C4_Witness ==
    /\ mpc = "once"
    /\ \E k \in KeysOf(mU) \cap KeysOf(mE) : mU.map[k] = None /\ IsDict(mE.map[k])
    /\ \E k \in KeysOf(mU) \cap KeysOf(mE) :
          IsDict(mU.map[k]) /\ KeysOf(mU.map[k]) # {} /\ ~IsDict(mE.map[k])

----------------------------------------------------------------------------
(* utils/ansible/inventory.py: Inventory wraps Ansible's InventoryManager.  *)
(* An inventory document (inventory.yml once parsed) is                     *)
(*   [hosts: name -> variables, groups: child group -> set of host names],   *)
(* the set standing for the mapping host -> null under the group's hosts.    *)
(* The in-memory inventory has the same two fields, with the groups all and  *)
(* ungrouped that Ansible always keeps and the variables inventory_file and  *)
(* inventory_dir that Ansible's parser gives every host.                     *)

MaxInvCommits == 3

InvHosts == {"n1", "n2"}
GroupLists == {<<>>, <<"workers">>, <<"web">>, <<"all", "", "db", "workers">>}
Ips == {"10.0.0.5", "10.0.0.6"}
Macs == {"aa:bb"}
Ports == {"22", "2222"}
Users == {"root"}

Sentinels == {"all", "ungrouped", ""}
ParserVars == {"inventory_file", "inventory_dir"}

\* Inventory(inventory_file) / refresh_inventory(): parse the document
Inventory_parse(doc) ==
    [hosts |-> [h \in DOMAIN doc.hosts |->
                  [v \in ParserVars |-> "inventory"] @@ doc.hosts[h]],
     groups |-> ("all" :> DOMAIN doc.hosts)
                @@ ("ungrouped" :> {h \in DOMAIN doc.hosts :
                                      \A g \in DOMAIN doc.groups : h \notin doc.groups[g]})
                @@ doc.groups]

\* for group in groups where a group that exists starts over with the new host
RECURSIVE add_to_groups_reset(_, _, _)
add_to_groups_reset(grps, host_name, groups) ==
    IF groups = <<>> THEN grps
    ELSE LET group == Head(groups)
             next == IF group \in Sentinels THEN grps
                     ELSE (group :> {host_name}) @@ grps
         IN  add_to_groups_reset(next, host_name, Tail(groups))

\* for group in groups: skip the sentinels, add_group(group), add_host(host_name, group)
RECURSIVE add_to_groups(_, _, _)
add_to_groups(grps, host_name, groups) ==
    IF groups = <<>> THEN grps
    ELSE LET group == Head(groups)
             next == IF group \in Sentinels THEN grps
                     ELSE IF group \in DOMAIN grps
                          THEN [grps EXCEPT ![group] = @ \cup {host_name}]
                          ELSE (group :> {host_name}) @@ grps
         IN  add_to_groups(next, host_name, Tail(groups))

\* Inventory.add_host that overwrites a host already there
Inventory_add_host_overwrite(inv, host_name, groups, ip, mac, port, ansible_user) ==
    LET hostvars == ("ansible_host" :> ip) @@ ("ansible_user" :> ansible_user)
                    @@ ("ansible_port" :> port) @@ ("primary_mac" :> mac)
        withAll == [inv.groups EXCEPT !["all"] = @ \cup {host_name}]
    IN  [raised |-> FALSE,
         inv |-> [hosts |-> (host_name :> hostvars) @@ inv.hosts,
                  groups |-> add_to_groups(withAll, host_name, groups)]]

\* Inventory.add_host: ValueError when the host is among get_hosts(); else the
\* host joins all with its four variables, and every listed group
Inventory_add_host(inv, host_name, groups, ip, mac, port, ansible_user) ==
    IF host_name \in inv.groups["all"]
    THEN [raised |-> TRUE, inv |-> inv]
    ELSE LET hostvars == ("ansible_host" :> ip) @@ ("ansible_user" :> ansible_user)
                         @@ ("ansible_port" :> port) @@ ("primary_mac" :> mac)
             withAll == [inv.groups EXCEPT !["all"] = @ \cup {host_name}]
         IN  [raised |-> FALSE,
              inv |-> [hosts |-> (host_name :> hostvars) @@ inv.hosts,
                       groups |-> add_to_groups(withAll, host_name, groups)]]

\* remove_host that leaves the groups the host has emptied
Inventory_remove_host_noprune(inv, host_name) ==
    IF host_name \notin DOMAIN inv.hosts
    THEN inv
    ELSE [hosts |-> [h \in DOMAIN inv.hosts \ {host_name} |-> inv.hosts[h]],
          groups |-> [g \in DOMAIN inv.groups |-> inv.groups[g] \ {host_name}]]

\* remove_host that takes the host out of all.hosts and leaves it in its groups
Inventory_remove_host_stale(inv, host_name) ==
    IF host_name \notin DOMAIN inv.hosts
    THEN inv
    ELSE LET left == [g \in DOMAIN inv.groups |->
                        IF g \in {"all", "ungrouped"}
                        THEN inv.groups[g] \ {host_name} ELSE inv.groups[g]]
         IN  [hosts |-> [h \in DOMAIN inv.hosts \ {host_name} |-> inv.hosts[h]],
              groups |-> [g \in {k \in DOMAIN left : left[k] # {}} |-> left[g]]]

\* Inventory.remove_host: return (after a warning) when get_host() is None;
\* else InventoryData.remove_host takes the host out of hosts and of every
\* group, and every group that get_groups_dict() then shows without hosts,
\* all and ungrouped too, is removed
Inventory_remove_host(inv, host_name) ==
    IF host_name \notin DOMAIN inv.hosts
    THEN inv
    ELSE LET left == [g \in DOMAIN inv.groups |-> inv.groups[g] \ {host_name}]
             groups_to_remove == {g \in DOMAIN left : left[g] = {}}
         IN  [hosts |-> [h \in DOMAIN inv.hosts \ {host_name} |-> inv.hosts[h]],
              groups |-> [g \in DOMAIN left \ groups_to_remove |-> left[g]]]

\* update_host_vars that puts new_vars in the place of the host's variables
Inventory_update_host_vars_replace(inv, host_name, new_vars) ==
    IF host_name \notin DOMAIN inv.hosts
    THEN [raised |-> TRUE, inv |-> inv]
    ELSE [raised |-> FALSE,
          inv |-> [inv EXCEPT !.hosts[host_name] = new_vars]]

\* Inventory.update_host_vars: ValueError when get_host() finds no host; else
\* set_variable(key, value) for every item of new_vars
Inventory_update_host_vars(inv, host_name, new_vars) ==
    IF host_name \notin DOMAIN inv.hosts
    THEN [raised |-> TRUE, inv |-> inv]
    ELSE [raised |-> FALSE,
          inv |-> [inv EXCEPT !.hosts[host_name] = new_vars @@ @]]

\* to_dict that leaves inventory_file and inventory_dir among the variables
Inventory_to_dict_nopop(inv) ==
    LET members == IF "all" \in DOMAIN inv.groups THEN inv.groups["all"] ELSE {}
    IN  [hosts |-> [h \in members \cap DOMAIN inv.hosts |-> inv.hosts[h]],
         groups |-> [g \in DOMAIN inv.groups \ {"all", "ungrouped"} |-> inv.groups[g]]]

\* to_dict that lists ungrouped among the children
Inventory_to_dict_ungrouped(inv) ==
    LET members == IF "all" \in DOMAIN inv.groups THEN inv.groups["all"] ELSE {}
    IN  [hosts |-> [h \in members \cap DOMAIN inv.hosts |->
                      [v \in DOMAIN inv.hosts[h] \ ParserVars |-> inv.hosts[h][v]]],
         groups |-> [g \in DOMAIN inv.groups \ {"all"} |-> inv.groups[g]]]

\* Inventory.to_dict: all.hosts from groups_dict.get("all", []), without the
\* parser's variables; all.children from every group but all and ungrouped
Inventory_to_dict(inv) ==
    LET members == IF "all" \in DOMAIN inv.groups THEN inv.groups["all"] ELSE {}
    IN  [hosts |-> [h \in members \cap DOMAIN inv.hosts |->
                      [v \in DOMAIN inv.hosts[h] \ ParserVars |-> inv.hosts[h][v]]],
         groups |-> [g \in DOMAIN inv.groups \ {"all", "ungrouped"} |-> inv.groups[g]]]

----------------------------------------------------------------------------
(* utils/ansible/inventory.py: InventoryManager, on the inventory repository *)

InvRepo0 == [files |-> invDoc, head |-> invHead, ahead |-> 0, incoming |-> NoNews, pullOk |-> TRUE, made |-> <<>>, log |-> <<>>]

\* load(): pull, then parse inventory.yml; refresh_inventory(), the first
\* call of every method of Inventory, parses the same file again
InventoryManager_load(repo) ==
    LET r == Logged(RepoManager_pull(repo), "read")
    IN  [repo |-> r, inventory |-> Inventory_parse(r.files)]

\* save(): to_dict, write inventory.yml, commit and push
InventoryManager_save(repo, inventory, pushOk) ==
    commit_and_push_all(
        Logged([repo EXCEPT !.files = Inventory_to_dict(inventory)], "write"),
        "Update inventory", pushOk).repo

\* InventoryManager.add_host: load, Inventory.add_host, save; a ValueError is
\* logged as a warning and the method returns without saving
InventoryManager_add_host(repo, host_name, groups, ip, mac, port, ansible_user, pushOk) ==
    LET loaded == InventoryManager_load(repo)
        added == Inventory_add_host(loaded.inventory, host_name, groups, ip, mac,
                                    port, ansible_user)
    IN  IF added.raised
        THEN [repo |-> loaded.repo, inventory |-> added.inv,
              valueError |-> TRUE, raised |-> FALSE]
        ELSE [repo |-> InventoryManager_save(loaded.repo, added.inv, pushOk),
              inventory |-> added.inv, valueError |-> FALSE, raised |-> FALSE]

\* InventoryManager.remove_host: load, Inventory.remove_host (which raises no
\* ValueError), save
InventoryManager_remove_host(repo, host_name, pushOk) ==
    LET loaded == InventoryManager_load(repo)
        removed == Inventory_remove_host(loaded.inventory, host_name)
    IN  [repo |-> InventoryManager_save(loaded.repo, removed, pushOk),
         inventory |-> removed, valueError |-> FALSE, raised |-> FALSE]

\* update_host_vars that lets the ValueError reach its caller
InventoryManager_update_host_vars_raise(repo, host_name, new_vars, pushOk) ==
    LET loaded == InventoryManager_load(repo)
        updated == Inventory_update_host_vars(loaded.inventory, host_name, new_vars)
    IN  IF updated.raised
        THEN [repo |-> loaded.repo, inventory |-> updated.inv,
              valueError |-> TRUE, raised |-> TRUE]
        ELSE [repo |-> InventoryManager_save(loaded.repo, updated.inv, pushOk),
              inventory |-> updated.inv, valueError |-> FALSE, raised |-> FALSE]

\* InventoryManager.update_host_vars: load, Inventory.update_host_vars, save;
\* a ValueError is logged as a warning and the method returns without saving
InventoryManager_update_host_vars(repo, host_name, new_vars, pushOk) ==
    LET loaded == InventoryManager_load(repo)
        updated == Inventory_update_host_vars(loaded.inventory, host_name, new_vars)
    IN  IF updated.raised
        THEN [repo |-> loaded.repo, inventory |-> updated.inv,
              valueError |-> TRUE, raised |-> FALSE]
        ELSE [repo |-> InventoryManager_save(loaded.repo, updated.inv, pushOk),
              inventory |-> updated.inv, valueError |-> FALSE, raised |-> FALSE]

----------------------------------------------------------------------------
(* The handlers of the Inventory Store (specification SpecInv) *)

\* new_vars of update_host_vars
VarUpdates ==
    { ("ansible_host" :> "10.0.0.6"),
      ("role" :> "db") @@ ("ansible_port" :> "2222"),
      ("inventory_dir" :> "/srv") }

NoArgs == [groups |-> <<>>, ip |-> "", mac |-> "", port |-> "", user |-> "",
           vars |-> EmptyFn]

InitInv ==
    /\ invDoc = [hosts |-> EmptyFn, groups |-> EmptyFn]
    /\ invHead = invDoc
    /\ invCommits = 0
    /\ invLast = [op |-> "none", host |-> "", args |-> NoArgs,
                  valueError |-> FALSE, raised |-> FALSE,
                  pre |-> invDoc, mem |-> Inventory_parse(invDoc),
                  made |-> 0, unpushed |-> 0, log |-> <<>>,
                  assigned |-> [h \in InvHosts |-> {}]]
    /\ HvIdle
    /\ MergeIdle

\* What the method was, what it got, the document it started from, the
\* inventory it held in memory when it returned, the commits it made and left
\* unpushed, its accesses, and for every host the groups of the add_host that
\* put it in the inventory it is in
InvRan(op, host, args, r, assigned) ==
    /\ invDoc' = r.repo.files
    /\ invHead' = r.repo.head
    /\ invCommits' = invCommits + Len(r.repo.made)
    /\ invLast' = [op |-> op, host |-> host, args |-> args,
                   valueError |-> r.valueError, raised |-> r.raised,
                   pre |-> invDoc, mem |-> r.inventory,
                   made |-> Len(r.repo.made), unpushed |-> r.repo.ahead,
                   log |-> r.repo.log, assigned |-> assigned]

\* inventory_manager.add_host(host_name, groups, ip, mac, port, ansible_user)
AddHost ==
    /\ invCommits < MaxInvCommits
    /\ \E host_name \in InvHosts, groups \in GroupLists, ip \in Ips, mac \in Macs,
          port \in Ports, ansible_user \in Users, pushOk \in BOOLEAN :
            LET r == InventoryManager_add_host(InvRepo0, host_name, groups, ip, mac,
                                               port, ansible_user, pushOk)
            IN  InvRan("add_host", host_name,
                       [groups |-> groups, ip |-> ip, mac |-> mac, port |-> port,
                        user |-> ansible_user, vars |-> EmptyFn],
                       r,
                       IF r.valueError THEN invLast.assigned
                       ELSE [invLast.assigned EXCEPT ![host_name] = SetOf(groups)])
    /\ UNCHANGED <<hvVars, mVars>>

\* inventory_manager.remove_host(host_name)
RemoveHost ==
    /\ invCommits < MaxInvCommits
    /\ \E host_name \in InvHosts, pushOk \in BOOLEAN :
            LET r == InventoryManager_remove_host(InvRepo0, host_name, pushOk)
            IN  InvRan("remove_host", host_name, NoArgs, r,
                       [invLast.assigned EXCEPT ![host_name] = {}])
    /\ UNCHANGED <<hvVars, mVars>>

\* inventory_manager.update_host_vars(host_name, new_vars)
UpdateHostVars ==
    /\ invCommits < MaxInvCommits
    /\ \E host_name \in InvHosts, new_vars \in VarUpdates, pushOk \in BOOLEAN :
            LET r == InventoryManager_update_host_vars(InvRepo0, host_name,
                                                       new_vars, pushOk)
            IN  InvRan("update_host_vars", host_name,
                       [NoArgs EXCEPT !.vars = new_vars], r, invLast.assigned)
    /\ UNCHANGED <<hvVars, mVars>>

NextInv ==
    \/ AddHost
    \/ RemoveHost
    \/ UpdateHostVars

SpecInv == InitInv /\ [][NextInv]_vars

----------------------------------------------------------------------------
(* Claims about the Inventory Model and the Inventory Store (SpecInv) *)

\* C10: add_host for a name the inventory already has fails in
\* Inventory.add_host with the ValueError for an existing host, whatever
\* groups, ip, mac, port and user it passes, and the inventory document
\* (hosts, their variables, groups and members) stays what the first call
\* left, with nothing committed
C10_AddHostTwice ==
    (invLast.op = "add_host" /\ invLast.host \in DOMAIN invLast.pre.hosts) =>
        /\ invLast.valueError
        /\ invDoc = invLast.pre
        /\ invHead = invDoc
        /\ invLast.made = 0

\* C10's case: add_host has run for a host that was there, with another ip
\* and port and a group the host is not in
C10_Witness ==
    /\ invLast.op = "add_host"
    /\ invLast.host \in DOMAIN invLast.pre.hosts
    /\ invLast.pre.hosts[invLast.host]["ansible_host"] # invLast.args.ip
    /\ invLast.pre.hosts[invLast.host]["ansible_port"] # invLast.args.port
    /\ \E g \in SetOf(invLast.args.groups) \ Sentinels :
          g \notin DOMAIN invLast.pre.groups

C12_RemovePrunes ==
    (invLast.op = "remove_host" /\ invLast.host \in DOMAIN invLast.pre.hosts) =>
        /\ \A g \in DOMAIN invLast.pre.groups :
              LET rest == invLast.pre.groups[g] \ {invLast.host}
              IN  IF rest = {}
                  THEN g \notin DOMAIN invDoc.groups
                  ELSE g \in DOMAIN invDoc.groups /\ invDoc.groups[g] = rest
        /\ DOMAIN invDoc.groups \subseteq DOMAIN invLast.pre.groups

\* C12's case: remove_host has run for a host that was the only member of
\* one group and shared another group with a host that stays
C12_Witness ==
    /\ invLast.op = "remove_host"
    /\ \E g1, g2 \in DOMAIN invLast.pre.groups :
          /\ invLast.pre.groups[g1] = {invLast.host}
          /\ invLast.host \in invLast.pre.groups[g2]
          /\ invLast.pre.groups[g2] # {invLast.host}
          /\ g2 \in DOMAIN invDoc.groups

\* C13: whatever add_host, remove_host and update_host_vars have run since
\* the empty inventory, no child group of inventory.yml is without member
\* hosts and none is named all, ungrouped or the empty string
C13_NoEmptyGroup ==
    \A g \in DOMAIN invDoc.groups :
        /\ invDoc.groups[g] # {}
        /\ g \notin Sentinels

\* C13's case: remove_host has taken the only member out of a group, while a
\* host added with the sentinel names among its groups stays
C13_Witness ==
    /\ invLast.op = "remove_host"
    /\ \E g \in DOMAIN invLast.pre.groups : invLast.pre.groups[g] = {invLast.host}
    /\ \E h \in DOMAIN invDoc.hosts : Sentinels \cap invLast.assigned[h] # {}

\* The names a child group can have: what add_host may be given, less the
\* sentinels
ChildGroupNames == UNION {SetOf(groups) : groups \in GroupLists} \ Sentinels

\* C14: whatever add_host, remove_host and update_host_vars have run, every
\* host under a child group is in all.hosts; a host is under child group g
\* exactly when the add_host that put it in the inventory named g and no
\* remove_host has taken it out since; and after remove_host(h) the name h is
\* neither in all.hosts nor under any group
C14_Membership ==
    /\ \A g \in DOMAIN invDoc.groups : invDoc.groups[g] \subseteq DOMAIN invDoc.hosts
    /\ \A h \in InvHosts, g \in ChildGroupNames :
          (g \in DOMAIN invDoc.groups /\ h \in invDoc.groups[g])
              <=> g \in invLast.assigned[h]
    /\ \A g \in DOMAIN invDoc.groups : g \in ChildGroupNames
    /\ invLast.op = "remove_host" =>
          /\ invLast.host \notin DOMAIN invDoc.hosts
          /\ \A g \in DOMAIN invDoc.groups : invLast.host \notin invDoc.groups[g]

\* C14's case: remove_host has taken out a host that was in a group, while
\* another host stays in that group
C14_Witness ==
    /\ invLast.op = "remove_host"
    /\ \E g \in DOMAIN invDoc.groups :
          /\ invLast.host \in invLast.pre.groups[g]
          /\ invDoc.groups[g] # {}

\* C15: after add_host(name, groups, ip, mac, port, user) for a name the
\* inventory did not have, all.hosts[name] holds ansible_host = ip,
\* ansible_user = user, ansible_port = port and primary_mac = mac, name is
\* under every group of groups but the sentinels, and the hosts, their
\* variables and the memberships there were are as they were
C15_AddHost ==
    (invLast.op = "add_host" /\ invLast.host \notin DOMAIN invLast.pre.hosts) =>
        /\ DOMAIN invDoc.hosts = DOMAIN invLast.pre.hosts \cup {invLast.host}
        /\ invDoc.hosts[invLast.host]["ansible_host"] = invLast.args.ip
        /\ invDoc.hosts[invLast.host]["ansible_user"] = invLast.args.user
        /\ invDoc.hosts[invLast.host]["ansible_port"] = invLast.args.port
        /\ invDoc.hosts[invLast.host]["primary_mac"] = invLast.args.mac
        /\ \A g \in SetOf(invLast.args.groups) \ Sentinels :
              g \in DOMAIN invDoc.groups /\ invLast.host \in invDoc.groups[g]
        /\ \A h \in DOMAIN invLast.pre.hosts : invDoc.hosts[h] = invLast.pre.hosts[h]
        /\ \A g \in DOMAIN invLast.pre.groups :
              /\ g \in DOMAIN invDoc.groups
              /\ invDoc.groups[g] \ {invLast.host} = invLast.pre.groups[g]
        /\ \A g \in DOMAIN invDoc.groups \ DOMAIN invLast.pre.groups :
              invDoc.groups[g] = {invLast.host}

\* C15's case: add_host has run for a new name with sentinels among its
\* groups, one group that had a member and one group that did not exist
C15_Witness ==
    /\ invLast.op = "add_host"
    /\ invLast.host \notin DOMAIN invLast.pre.hosts
    /\ Sentinels \cap SetOf(invLast.args.groups) # {}
    /\ \E g \in SetOf(invLast.args.groups) : g \in DOMAIN invLast.pre.groups
    /\ \E g \in SetOf(invLast.args.groups) \ Sentinels : g \notin DOMAIN invLast.pre.groups

\* C16: update_host_vars(name, vars) for a name the inventory lacks raises
\* the ValueError for a host not found and leaves the inventory as loaded;
\* for a host of the inventory every key of vars holds its new value, the
\* host's other variables keep theirs, and the groups, their members and the
\* other hosts are as loaded
C16_SetVariables ==
    invLast.op = "update_host_vars" =>
        LET loaded == Inventory_parse(invLast.pre)
            name == invLast.host
            new_vars == invLast.args.vars
        IN  IF name \notin DOMAIN invLast.pre.hosts
            THEN /\ invLast.valueError
                 /\ invLast.mem = loaded
                 /\ invDoc = invLast.pre
            ELSE /\ ~invLast.valueError
                 /\ DOMAIN invLast.mem.hosts = DOMAIN loaded.hosts
                 /\ DOMAIN invLast.mem.hosts[name] =
                       DOMAIN loaded.hosts[name] \cup DOMAIN new_vars
                 /\ \A k \in DOMAIN new_vars : invLast.mem.hosts[name][k] = new_vars[k]
                 /\ \A k \in DOMAIN loaded.hosts[name] \ DOMAIN new_vars :
                       invLast.mem.hosts[name][k] = loaded.hosts[name][k]
                 /\ \A h \in DOMAIN loaded.hosts \ {name} :
                       invLast.mem.hosts[h] = loaded.hosts[h]
                 /\ invLast.mem.groups = loaded.groups
                 /\ invDoc.groups = invLast.pre.groups
                 /\ \A h \in DOMAIN invLast.pre.hosts \ {name} :
                       invDoc.hosts[h] = invLast.pre.hosts[h]

\* C16's case: update_host_vars has run on a host of the inventory, setting
\* one variable the host had and one it did not have, next to another host
C16_Witness ==
    /\ invLast.op = "update_host_vars"
    /\ invLast.host \in DOMAIN invLast.pre.hosts
    /\ DOMAIN invLast.pre.hosts # {invLast.host}
    /\ \E k1, k2 \in DOMAIN invLast.args.vars :
          /\ k1 \in DOMAIN invLast.pre.hosts[invLast.host]
          /\ invLast.pre.hosts[invLast.host][k1] # invLast.args.vars[k1]
          /\ k2 \notin DOMAIN invLast.pre.hosts[invLast.host]

\* C16's other case: update_host_vars has run for a name the inventory lacks
C16_WitnessAbsent ==
    /\ invLast.op = "update_host_vars"
    /\ invLast.host \notin DOMAIN invLast.pre.hosts
    /\ invLast.pre.hosts # EmptyFn

\* C17: an add_host that meets a host already there and an update_host_vars
\* that meets no such host return normally from InventoryManager: the
\* ValueError does not reach the caller, inventory.yml is not written, and
\* nothing is added, committed or pushed
C17_Swallowed ==
    (\/ invLast.op = "add_host" /\ invLast.host \in DOMAIN invLast.pre.hosts
     \/ invLast.op = "update_host_vars" /\ invLast.host \notin DOMAIN invLast.pre.hosts) =>
        /\ invLast.valueError
        /\ ~invLast.raised
        /\ invLast.log = <<"pull", "read">>
        /\ invDoc = invLast.pre
        /\ invLast.made = 0

\* C17's case: update_host_vars has run for a name the inventory lacks, after
\* a commit whose push failed
C17_Witness ==
    /\ invLast.op = "update_host_vars"
    /\ invLast.host \notin DOMAIN invLast.pre.hosts
    /\ invLast.valueError
    /\ invCommits > 0


====
